---- MODULE Spec2Model ----
(***************************************************************************)
(* Pokemon_Card_Detector: the catalog matcher (find_similar_card.py,       *)
(* find_similar_cardV2.py), the corner orderer and the rectifier           *)
(* (card_warper.py), the contour filters of the detectors                  *)
(* (detect_card_test.py, detect_card.py).                                  *)
(*                                                                         *)
(* A hexadecimal string is a sequence of character codes: 0..15 for the    *)
(* digits 0-9a-f, 17 to 21 for the characters int(s, 16) reads besides     *)
(* digits (sign, x, underscore, whitespace), 16 for any other character.   *)
(* An ImageHash is the flattened bit array it wraps (a sequence of 0/1).   *)
(*                                                                         *)
(* A contour is what OpenCV measures on it: its area, its number of        *)
(* points, its approximating polygon, the outcome of the ellipse fit, its  *)
(* perimeter and the perimeter of its hull.  A decimal literal is written  *)
(* <<numerator, denominator>>; arithmetic on floats is done as Python and  *)
(* numpy do it: in binary64, in float32 for the rectifier's edge lengths;  *)
(* an eccentricity is counted in ten-thousandths.                          *)
(***************************************************************************)
EXTENDS Integers, Sequences, FiniteSets

VARIABLES
    json_records,   \* the 'hash' strings of the catalog file, in file order
    hashed_data,    \* load_hashed_data's list: entries [id, hash, hash_obj]
    image,          \* the query image: "missing", "unreadable" or "ok"
    input_phash,    \* the hex form of imagehash.phash(image) for a readable image
    T1,             \* max_hamming_distance
    T2,             \* max_custom_distance_for_tiebreak
    pc,             \* "load", "load_failed", "loaded", "done", or "idle"
    called,         \* the matcher that produced the outcome, "" before the call
    ret,            \* the value returned: None or the id of the returned entry
    metric,         \* final_distance_metric
    distance,       \* final_distance_value
    raised,         \* the exception that left the matcher, "" when it returned
    points,         \* reorder_corners' input: a sequence of <<x, y>>
    rect,           \* reorder_corners(points)
    rect2,          \* reorder_corners(rect)
    cpc,            \* "input", "ordered", "reordered", or "idle"
    warp_image,     \* warp_card_to_standard_ratio's image: "None", "empty" or "ok"
    corners_on_original_image,  \* its corners: a sequence of <<x, y>>
    ordered_corners,            \* its local ordered_corners, <<>> when not reached
    warped_image,   \* its return value: [kind |-> "None"] or an image of w x h pixels
    wpc,            \* "call", "returned", or "idle"
    routine,        \* the detector called, "" when none is
    image_bgr,      \* the detector's image: [valid, h, w], valid FALSE for None
    resize_height,  \* detect_enhanced_card_contours' resize_height, 0 for None
    contours,       \* what cv2.findContours returns on the processed image
    scale,          \* the local scale, a binary64 value
    processed_shape,            \* <<height, width>> of the processed image
    cnt_index,      \* the position of the contour loop, from 1
    detected_card_scaled_corners,   \* the candidates collected so far
    stages,         \* per contour met, the filter that rejected it or "accepted"
    detection,      \* the detector's return value: [none, cards, debug]
    dpc             \* "start", "loop", "returned", or "idle"

vars == <<json_records, hashed_data, image, input_phash, T1, T2, pc, called, ret,
          metric, distance, raised, points, rect, rect2, cpc,
          warp_image, corners_on_original_image, ordered_corners, warped_image, wpc,
          routine, image_bgr, resize_height, contours, scale, processed_shape,
          cnt_index, detected_card_scaled_corners, stages, detection, dpc>>

matcherVars == <<json_records, hashed_data, image, input_phash, T1, T2, pc, called,
                 ret, metric, distance, raised>>
cornerVars == <<points, rect, rect2, cpc>>
warpVars == <<warp_image, corners_on_original_image, ordered_corners, warped_image, wpc>>
detectVars == <<routine, image_bgr, resize_height, contours, scale, processed_shape,
                cnt_index, detected_card_scaled_corners, stages, detection, dpc>>
pipelineVars == <<warpVars, detectVars>>

-----------------------------------------------------------------------------
(* Bounds of the model *)

MaxCatalog == 2     \* catalog files of 0..MaxCatalog records
MaxT1 == 3          \* max_hamming_distance ranges over 0..MaxT1
MaxT2 == 4          \* max_custom_distance_for_tiebreak ranges over 0..MaxT2
TieCatalogSize == 3  \* the catalogs of the tie-break runs hold this many records
MaxCoord == 2       \* corner coordinates range over 0..MaxCoord
MaxContours == 2    \* cv2.findContours returns 0..MaxContours contours

(* Program constants *)

Inf == 1000000      \* float('inf'): above every distance and threshold
PhashBits == 64     \* imagehash.phash: hash_size 8, an 8x8 bit array

None == 0            \* Python None as a returned value; entries are returned by id 1..n
METRIC_HAMMING == "Hamming"
METRIC_CUSTOM == "Personnalisee (apres egalite Hamming)"

-----------------------------------------------------------------------------
(* imagehash: hex_to_hash, str(ImageHash), ImageHash.__sub__ *)

\* characters other than the hexadecimal digits 0..15
NonHexChar == 16        \* any character int() has no use for
PlusChar == 17          \* '+'
MinusChar == 18         \* '-'
XChar == 19             \* 'x' or 'X'
UnderscoreChar == 20    \* '_'
SpaceChar == 21         \* a whitespace character

NibbleBits(d) == << (d \div 8) % 2, (d \div 4) % 2, (d \div 2) % 2, d % 2 >>

RECURSIVE HexBits(_)
HexBits(s) == IF s = <<>> THEN <<>> ELSE NibbleBits(Head(s)) \o HexBits(Tail(s))

RECURSIVE StripZeros(_)
StripZeros(b) == IF Len(b) > 1 /\ Head(b) = 0 THEN StripZeros(Tail(b)) ELSE b

PadLeft(b, w) ==
    IF Len(b) >= w THEN b
    ELSE [i \in 1..w |-> IF i <= w - Len(b) THEN 0 ELSE b[i - (w - Len(b))]]

ISqrt(n) == CHOOSE r \in 0..n : r * r <= n /\ (r + 1) * (r + 1) > n

\* int(s, 16) reads: whitespace, a sign, 0x, digits with single underscores
\* between them, whitespace
RECURSIVE Strip(_)
Strip(s) ==
    IF s # <<>> /\ Head(s) = SpaceChar THEN Strip(Tail(s))
    ELSE IF s # <<>> /\ s[Len(s)] = SpaceChar THEN Strip(SubSeq(s, 1, Len(s) - 1))
    ELSE s

Signed(s) == s # <<>> /\ Head(s) \in {PlusChar, MinusChar}

WithoutSign(s) == IF Signed(s) THEN Tail(s) ELSE s

WithoutPrefix(s) ==
    IF Len(s) >= 2 /\ s[1] = 0 /\ s[2] = XChar
    THEN IF Len(s) >= 3 /\ s[3] = UnderscoreChar
         THEN SubSeq(s, 4, Len(s)) ELSE SubSeq(s, 3, Len(s))
    ELSE s

\* the digits and underscores int(s, 16) converts
IntBody(s) == WithoutPrefix(WithoutSign(Strip(s)))

\* int(s, 16) does not raise ValueError
IsHex(s) ==
    LET b == IntBody(s)
    IN  /\ b # <<>>
        /\ b[1] \in 0..15 /\ b[Len(b)] \in 0..15
        /\ \A i \in DOMAIN b :
              \/ b[i] \in 0..15
              \/ b[i] = UnderscoreChar /\ b[i - 1] \in 0..15 /\ b[i + 1] \in 0..15

IntDigits(s) == SelectSeq(IntBody(s), LAMBDA c : c \in 0..15)

\* int(s, 16) < 0
IntNegative(s) ==
    /\ Head(Strip(s)) = MinusChar
    /\ \E i \in DOMAIN IntDigits(s) : IntDigits(s)[i] # 0

\* '{:0>{width}b}'.format(int(hexstr, 16), width=hash_size * hash_size)
BinaryArray(hexstr) ==
    LET hash_size == ISqrt(Len(hexstr) * 4)
    IN  PadLeft(StripZeros(HexBits(IntDigits(hexstr))), hash_size * hash_size)

\* int(hexstr, 16) raises on a string it cannot read; int(d) raises on the
\* '-' of a negative number's binary form; numpy.array raises on rows of
\* unequal length (the binary form is cut in rows of hash_size characters).
HexToHashFails(hexstr) ==
    \/ ~IsHex(hexstr)
    \/ IntNegative(hexstr)
    \/ Len(BinaryArray(hexstr)) % ISqrt(Len(hexstr) * 4) # 0

hex_to_hash(hexstr) == BinaryArray(hexstr)

\* str(ImageHash): '{:0>{width}x}'.format(int(bit_string, 2), width=ceil(len/4))
HashToHex(bits) ==
    LET width == (Len(bits) + 3) \div 4
        b == PadLeft(bits, 4 * width)
    IN  [k \in 1..width |->
            8 * b[4 * k - 3] + 4 * b[4 * k - 2] + 2 * b[4 * k - 1] + b[4 * k]]

\* ImageHash.__sub__ raises TypeError when the two arrays differ in size
SubRaises(h1, h2) == Len(h1) # Len(h2)

ImageHashSub(h1, h2) == Cardinality({i \in 1..Len(h1) : h1[i] # h2[i]})

-----------------------------------------------------------------------------
(* load_hashed_data *)

LoadFails(records) == \E i \in DOMAIN records : HexToHashFails(records[i])

load_hashed_data(records) ==
    [i \in DOMAIN records |->
        [id |-> i, hash |-> records[i], hash_obj |-> hex_to_hash(records[i])]]

-----------------------------------------------------------------------------
(* custom_hex_char_diff_distance *)

\* the difference of the digit values with its sign kept
AbsDropped(n) == n

Abs(n) == IF n < 0 THEN 0 - n ELSE n

RECURSIVE SumAbsDiff(_, _, _)
SumAbsDiff(s1, s2, i) ==
    IF i > Len(s1) \/ i > Len(s2) THEN 0
    ELSE IF s1[i] \notin 0..15 \/ s2[i] \notin 0..15 THEN Inf
    ELSE LET rest == SumAbsDiff(s1, s2, i + 1)
         IN  IF rest = Inf THEN Inf ELSE Abs(s1[i] - s2[i]) + rest

custom_hex_char_diff_distance(hex_hash1_str, hex_hash2_str) ==
    IF Len(hex_hash1_str) # Len(hex_hash2_str) THEN Inf
    ELSE SumAbsDiff(hex_hash1_str, hex_hash2_str, 1)

-----------------------------------------------------------------------------
(* find_matching_card_with_tiebreak (find_similar_cardV2.py) *)

\* lines 61-75: the guards and the hashing of the query image
InputRejected(img, hashed) == img = "missing" \/ hashed = <<>> \/ img = "unreadable"

\* lines 81-90: the Hamming scan; an ImageHash of another size raises TypeError
RECURSIVE HammingScan(_, _, _, _)
HammingScan(input_hash_obj, hashed, i, acc) ==
    IF i > Len(hashed) THEN acc
    ELSE LET card_entry == hashed[i]
             stored_hash_obj == card_entry.hash_obj
         IN  IF Len(stored_hash_obj) = 0
             THEN HammingScan(input_hash_obj, hashed, i + 1, acc)
             ELSE IF SubRaises(input_hash_obj, stored_hash_obj)
             THEN [acc EXCEPT !.raised = "TypeError"]
             ELSE LET hamming_dist == ImageHashSub(input_hash_obj, stored_hash_obj)
                  IN  HammingScan(input_hash_obj, hashed, i + 1,
                        [raised |-> "",
                         min |-> IF hamming_dist < acc.min THEN hamming_dist ELSE acc.min,
                         matches |-> Append(acc.matches,
                                        [dist |-> hamming_dist, entry |-> card_entry])])

\* every entry compared, whatever its distance
TiedOnHammingUnfiltered(potential_hamming_matches, min_hamming_dist) ==
    [k \in DOMAIN potential_hamming_matches |-> potential_hamming_matches[k].entry]

\* line 93
TiedOnHamming(potential_hamming_matches, min_hamming_dist) ==
    LET tied == SelectSeq(potential_hamming_matches,
                          LAMBDA m : m.dist = min_hamming_dist)
    IN  [k \in DOMAIN tied |-> tied[k].entry]

\* the threshold compared one too high
ExceedsPrimaryOffByOne(min_hamming_dist, max_hamming_distance) ==
    min_hamming_dist > max_hamming_distance + 1

\* line 96
ExceedsPrimary(min_hamming_dist, max_hamming_distance) ==
    min_hamming_dist > max_hamming_distance

\* lines 107-110
UniqueMatch(tied_on_hamming, min_hamming_dist) ==
    [ret |-> tied_on_hamming[1].id, metric |-> METRIC_HAMMING,
     distance |-> min_hamming_dist, raised |-> ""]

\* the comparison of line 128 as <=: the last entry with the least custom distance
RECURSIVE TieBreakScanLast(_, _, _, _)
TieBreakScanLast(input_hash_hex_str, tied_on_hamming, i, acc) ==
    IF i > Len(tied_on_hamming) THEN acc
    ELSE LET card_entry_tied == tied_on_hamming[i]
             custom_dist == custom_hex_char_diff_distance(
                                input_hash_hex_str, card_entry_tied.hash)
         IN  TieBreakScanLast(input_hash_hex_str, tied_on_hamming, i + 1,
                IF custom_dist <= acc.min
                THEN [min |-> custom_dist, winner |-> card_entry_tied.id]
                ELSE acc)

\* lines 116-130: the first entry of the tied list with the least custom distance
RECURSIVE TieBreakScan(_, _, _, _)
TieBreakScan(input_hash_hex_str, tied_on_hamming, i, acc) ==
    IF i > Len(tied_on_hamming) THEN acc
    ELSE LET card_entry_tied == tied_on_hamming[i]
             stored_hash_hex_str == card_entry_tied.hash
         IN  IF stored_hash_hex_str = <<>>
             THEN TieBreakScan(input_hash_hex_str, tied_on_hamming, i + 1, acc)
             ELSE LET custom_dist == custom_hex_char_diff_distance(
                                         input_hash_hex_str, stored_hash_hex_str)
                  IN  TieBreakScan(input_hash_hex_str, tied_on_hamming, i + 1,
                        IF custom_dist < acc.min
                        THEN [min |-> custom_dist, winner |-> card_entry_tied.id]
                        ELSE acc)

\* the threshold of line 134 as a strict bound
WithinTieBreakStrict(min_custom_dist_for_tiebreak, max_custom_distance_for_tiebreak) ==
    min_custom_dist_for_tiebreak < max_custom_distance_for_tiebreak

\* line 134
WithinTieBreak(min_custom_dist_for_tiebreak, max_custom_distance_for_tiebreak) ==
    min_custom_dist_for_tiebreak <= max_custom_distance_for_tiebreak

NoMatch == [ret |-> None, metric |-> "", distance |-> Inf, raised |-> ""]

\* lines 112-148
TieBreakMatch(input_hash_hex_str, tied_on_hamming, max_custom) ==
    LET tb == TieBreakScan(input_hash_hex_str, tied_on_hamming, 1,
                           [min |-> Inf, winner |-> None])
    IN  IF tb.winner # None /\ WithinTieBreak(tb.min, max_custom)
        THEN [ret |-> tb.winner, metric |-> METRIC_CUSTOM,
              distance |-> tb.min, raised |-> ""]
        ELSE NoMatch

\* the tie-break, and its threshold, applied to a single closest entry too
ResolveAlwaysTieBreak(input_hash_hex_str, tied_on_hamming, min_hamming_dist, max_custom) ==
    IF Len(tied_on_hamming) >= 1
    THEN TieBreakMatch(input_hash_hex_str, tied_on_hamming, max_custom)
    ELSE NoMatch

\* lines 102-167: one closest entry is returned as it is, several go to the tie-break
Resolve(input_hash_hex_str, tied_on_hamming, min_hamming_dist, max_custom) ==
    IF Len(tied_on_hamming) = 1
    THEN UniqueMatch(tied_on_hamming, min_hamming_dist)
    ELSE IF Len(tied_on_hamming) > 1
    THEN TieBreakMatch(input_hash_hex_str, tied_on_hamming, max_custom)
    ELSE NoMatch

\* lines 44-167; phash is the hex form of imagehash.phash(Image.open(path))
find_matching_card_with_tiebreak(img, phash, hashed, max_hamming, max_custom) ==
    IF InputRejected(img, hashed) THEN NoMatch
    ELSE LET input_hash_obj == hex_to_hash(phash)
             input_hash_hex_str == HashToHex(input_hash_obj)
             scan == HammingScan(input_hash_obj, hashed, 1,
                                 [raised |-> "", min |-> Inf, matches |-> <<>>])
             tied_on_hamming == TiedOnHamming(scan.matches, scan.min)
         IN  IF scan.raised # ""
             THEN [ret |-> None, metric |-> "", distance |-> Inf,
                   raised |-> scan.raised]
             ELSE IF ExceedsPrimary(scan.min, max_hamming) THEN NoMatch
             ELSE Resolve(input_hash_hex_str, tied_on_hamming, scan.min, max_custom)

-----------------------------------------------------------------------------
(* find_matching_card (find_similar_card.py) *)

\* the least distance taken with min() over the list of distances, which raises
\* ValueError on an empty list
RECURSIVE BestMatchScanMinOfList(_, _, _, _)
BestMatchScanMinOfList(input_hash, hashed, i, acc) ==
    IF hashed = <<>> THEN [acc EXCEPT !.raised = "ValueError"]
    ELSE IF i > Len(hashed) THEN acc
    ELSE LET card_entry == hashed[i]
             stored_hash_obj == card_entry.hash_obj
         IN  IF SubRaises(input_hash, stored_hash_obj)
             THEN [acc EXCEPT !.raised = "TypeError"]
             ELSE LET dist == ImageHashSub(input_hash, stored_hash_obj)
                  IN  BestMatchScanMinOfList(input_hash, hashed, i + 1,
                        IF dist < acc.smallest_distance
                        THEN [raised |-> "", smallest_distance |-> dist,
                              best_match |-> card_entry.id]
                        ELSE acc)

\* lines 58-73: the first entry with the least Hamming distance
RECURSIVE BestMatchScan(_, _, _, _)
BestMatchScan(input_hash, hashed, i, acc) ==
    IF i > Len(hashed) THEN acc
    ELSE LET card_entry == hashed[i]
             stored_hash_obj == card_entry.hash_obj
         IN  IF Len(stored_hash_obj) = 0
             THEN BestMatchScan(input_hash, hashed, i + 1, acc)
             ELSE IF SubRaises(input_hash, stored_hash_obj)
             THEN [acc EXCEPT !.raised = "TypeError"]
             ELSE LET dist == ImageHashSub(input_hash, stored_hash_obj)
                  IN  BestMatchScan(input_hash, hashed, i + 1,
                        IF dist < acc.smallest_distance
                        THEN [raised |-> "", smallest_distance |-> dist,
                              best_match |-> card_entry.id]
                        ELSE acc)

\* a closest entry exactly at the threshold refused
AcceptBestBelowThreshold(best_match, smallest_distance, max_hamming_distance) ==
    best_match # None /\ smallest_distance < max_hamming_distance

\* line 79
AcceptBest(best_match, smallest_distance, max_hamming_distance) ==
    best_match # None /\ smallest_distance <= max_hamming_distance

\* lines 29-87
find_matching_card(img, phash, hashed, max_hamming) ==
    IF img = "missing" \/ img = "unreadable" THEN NoMatch
    ELSE LET input_hash == hex_to_hash(phash)
             scan == BestMatchScan(input_hash, hashed, 1,
                        [raised |-> "", smallest_distance |-> Inf, best_match |-> None])
         IN  IF scan.raised # ""
             THEN [ret |-> None, metric |-> "", distance |-> Inf,
                   raised |-> scan.raised]
             ELSE IF AcceptBest(scan.best_match, scan.smallest_distance, max_hamming)
             THEN [ret |-> scan.best_match, metric |-> METRIC_HAMMING,
                   distance |-> scan.smallest_distance, raised |-> ""]
             ELSE NoMatch

-----------------------------------------------------------------------------
(* Natural numbers of any size, as sequences of limbs below 2^15, lowest first,
   the highest limb being nonzero *)

LimbBits == 15
LimbBase == 2 ^ LimbBits

Limb(a, i) == IF i <= Len(a) THEN a[i] ELSE 0

RECURSIVE BigNorm(_)
BigNorm(a) ==
    IF a # <<>> /\ a[Len(a)] = 0 THEN BigNorm(SubSeq(a, 1, Len(a) - 1)) ELSE a

RECURSIVE BigFromInt(_)
BigFromInt(n) ==
    IF n = 0 THEN <<>> ELSE <<n % LimbBase>> \o BigFromInt(n \div LimbBase)

RECURSIVE BigToInt(_)
BigToInt(a) == IF a = <<>> THEN 0 ELSE Head(a) + LimbBase * BigToInt(Tail(a))

RECURSIVE BigCmpFrom(_, _, _)
BigCmpFrom(a, b, i) ==
    IF i = 0 THEN 0
    ELSE IF Limb(a, i) > Limb(b, i) THEN 1
    ELSE IF Limb(a, i) < Limb(b, i) THEN -1
    ELSE BigCmpFrom(a, b, i - 1)

\* 1, 0 or -1 as a is above, equal to or below b
BigCmp(a, b) == BigCmpFrom(a, b, IF Len(a) > Len(b) THEN Len(a) ELSE Len(b))

RECURSIVE BigAddFrom(_, _, _, _)
BigAddFrom(a, b, i, carry) ==
    IF i > Len(a) /\ i > Len(b)
    THEN IF carry = 0 THEN <<>> ELSE <<carry>>
    ELSE LET s == Limb(a, i) + Limb(b, i) + carry
         IN  <<s % LimbBase>> \o BigAddFrom(a, b, i + 1, s \div LimbBase)

BigAdd(a, b) == BigAddFrom(a, b, 1, 0)

RECURSIVE BigSubFrom(_, _, _, _)
BigSubFrom(a, b, i, borrow) ==
    IF i > Len(a) THEN <<>>
    ELSE LET d == a[i] - Limb(b, i) - borrow
         IN  <<IF d < 0 THEN d + LimbBase ELSE d>>
                \o BigSubFrom(a, b, i + 1, IF d < 0 THEN 1 ELSE 0)

\* a - b, for a >= b
BigSub(a, b) == BigNorm(BigSubFrom(a, b, 1, 0))

RECURSIVE BigMulSmallFrom(_, _, _, _)
BigMulSmallFrom(a, k, i, carry) ==
    IF i > Len(a) THEN BigFromInt(carry)
    ELSE LET p == a[i] * k + carry
         IN  <<p % LimbBase>> \o BigMulSmallFrom(a, k, i + 1, p \div LimbBase)

\* a * k, for k < LimbBase
BigMulSmall(a, k) == IF k = 0 THEN <<>> ELSE BigMulSmallFrom(a, k, 1, 0)

BigShiftLimbs(a, j) == IF a = <<>> THEN <<>> ELSE [i \in 1..j |-> 0] \o a

RECURSIVE BigMulFrom(_, _, _)
BigMulFrom(a, b, j) ==
    IF j > Len(b) THEN <<>>
    ELSE BigAdd(BigShiftLimbs(BigMulSmall(a, b[j]), j - 1), BigMulFrom(a, b, j + 1))

BigMul(a, b) == BigMulFrom(a, b, 1)

\* a * 2^s
BigShl(a, s) == BigShiftLimbs(BigMulSmall(a, 2 ^ (s % LimbBits)), s \div LimbBits)

RECURSIVE BigDivSmallFrom(_, _, _, _)
BigDivSmallFrom(a, k, i, rem) ==
    IF i = 0 THEN [q |-> <<>>, r |-> rem]
    ELSE LET cur == rem * LimbBase + a[i]
             rest == BigDivSmallFrom(a, k, i - 1, cur % k)
         IN  [q |-> Append(rest.q, cur \div k), r |-> rest.r]

\* quotient and remainder of a by k, for 0 < k <= LimbBase
BigDivSmall(a, k) ==
    LET d == BigDivSmallFrom(a, k, Len(a), 0)
    IN  [q |-> BigNorm(d.q), r |-> d.r]

\* a \div 2^s
BigShr(a, s) ==
    LET whole == s \div LimbBits
    IN  IF whole >= Len(a) THEN <<>>
        ELSE BigDivSmall(SubSeq(a, whole + 1, Len(a)), 2 ^ (s % LimbBits)).q

RECURSIVE BitLength(_)
BitLength(n) == IF n = 0 THEN 0 ELSE 1 + BitLength(n \div 2)

BigBitLength(a) ==
    IF a = <<>> THEN 0 ELSE LimbBits * (Len(a) - 1) + BitLength(a[Len(a)])

\* the largest digit q with q * d <= r, from the estimate qhat >= q
RECURSIVE QuotientDigit(_, _, _)
QuotientDigit(r, d, qhat) ==
    IF BigCmp(BigMulSmall(d, qhat), r) > 0 THEN QuotientDigit(r, d, qhat - 1) ELSE qhat

\* long division of n by d (top limb of d at least LimbBase / 2), limb i downwards
RECURSIVE BigDivModFrom(_, _, _, _)
BigDivModFrom(n, d, i, rem) ==
    IF i = 0 THEN [q |-> <<>>, r |-> rem]
    ELSE LET cur == BigNorm(<<n[i]>> \o rem)
             top == Limb(cur, Len(d) + 1) * LimbBase + Limb(cur, Len(d))
             est == top \div d[Len(d)]
             qd == QuotientDigit(cur, d, IF est >= LimbBase THEN LimbBase - 1 ELSE est)
             rest == BigDivModFrom(n, d, i - 1, BigSub(cur, BigMulSmall(d, qd)))
         IN  [q |-> Append(rest.q, qd), r |-> rest.r]

\* quotient of n by d # 0, and whether the division is exact
BigDivMod(n, d) ==
    LET s == LimbBits - BitLength(d[Len(d)])
        ns == BigShl(n, s)
        ds == BigShl(d, s)
        qr == BigDivModFrom(ns, ds, Len(ns), <<>>)
    IN  [q |-> BigNorm(qr.q), exact |-> qr.r = <<>>]

(* Binary floating point with a significand of p bits, for values >= 0: the
   value of [m, e] is m * 2^e with 2^(p-1) <= m < 2^p, or zero *)

FpZero == [m |-> <<>>, e |-> 0]

\* the value nearest to n * 2^e, ties to the even significand; sticky tells
\* that the exact value is above n * 2^e by less than 2^e
FpRound(p, n, e, sticky) ==
    IF n = <<>> THEN FpZero
    ELSE LET len == BigBitLength(n)
         IN  IF len <= p
             THEN [m |-> BigShl(n, p - len), e |-> e - (p - len)]
             ELSE LET s == len - p
                      q == BigShr(n, s)
                      r == BigSub(n, BigShl(q, s))
                      c == BigCmp(r, BigShl(<<1>>, s - 1))
                      up == c > 0 \/ (c = 0 /\ (sticky \/ q[1] % 2 = 1))
                      m == IF up THEN BigAdd(q, <<1>>) ELSE q
                  IN  IF BigBitLength(m) > p
                      THEN [m |-> BigShr(m, 1), e |-> e + s + 1]
                      ELSE [m |-> m, e |-> e + s]

FpFromInt(p, n) == FpRound(p, BigFromInt(n), 0, FALSE)

FpMul(p, a, b) == FpRound(p, BigMul(a.m, b.m), a.e + b.e, FALSE)

FpDiv(p, a, b) ==
    IF a.m = <<>> THEN FpZero
    ELSE LET qr == BigDivMod(BigShl(a.m, p + 3), b.m)
         IN  FpRound(p, qr.q, a.e - (p + 3) - b.e, ~qr.exact)

FpAdd(p, a, b) ==
    IF a.m = <<>> THEN b
    ELSE IF b.m = <<>> THEN a
    ELSE LET e == IF a.e < b.e THEN a.e ELSE b.e
         IN  FpRound(p, BigAdd(BigShl(a.m, a.e - e), BigShl(b.m, b.e - e)), e, FALSE)

\* a - b, for a >= b
FpSub(p, a, b) ==
    IF b.m = <<>> THEN a
    ELSE LET e == IF a.e < b.e THEN a.e ELSE b.e
         IN  FpRound(p, BigSub(BigShl(a.m, a.e - e), BigShl(b.m, b.e - e)), e, FALSE)

FpLess(a, b) ==
    IF b.m = <<>> THEN FALSE
    ELSE IF a.m = <<>> THEN TRUE
    ELSE a.e < b.e \/ (a.e = b.e /\ BigCmp(a.m, b.m) < 0)

\* int(x), astype(np.int32): the integer part
FpTrunc(a) ==
    IF a.m = <<>> THEN 0
    ELSE IF a.e >= 0 THEN BigToInt(BigShl(a.m, a.e))
    ELSE BigToInt(BigShr(a.m, 0 - a.e))

Binary64 == 53

\* float(n)
Float(n) == FpFromInt(Binary64, n)

\* the double a decimal literal num/den denotes, and the quotient num / den
Literal(r) == FpDiv(Binary64, Float(r[1]), Float(r[2]))

(* float32 arithmetic on values >= 0: the value of [m, e] is m * 2^e with
   2^23 <= m < 2^24, or zero *)

Binary32 == 24

\* the float32 nearest to the integer n, ties to the even significand
RoundToBinary32(n) ==
    LET len == BitLength(n)
    IN  IF len <= Binary32 THEN n
        ELSE LET s == len - Binary32
                 q == n \div 2 ^ s
                 r == n % 2 ^ s
                 up == r > 2 ^ (s - 1) \/ (r = 2 ^ (s - 1) /\ q % 2 = 1)
             IN  (IF up THEN q + 1 ELSE q) * 2 ^ s

RECURSIVE IntSqrt(_)
IntSqrt(n) ==
    IF n < 2 THEN n
    ELSE LET s == 2 * IntSqrt(n \div 4)
         IN  IF (s + 1) * (s + 1) <= n THEN s + 1 ELSE s

\* binary digits of the square root after root, until it has Binary32 + 1 bits:
\* n * 4^(-e) = root^2 + rem
RECURSIVE SqrtDigits(_, _, _)
SqrtDigits(root, rem, e) ==
    IF root >= 2 ^ Binary32 THEN [root |-> root, rem |-> rem, e |-> e]
    ELSE IF 4 * rem >= 4 * root + 1
    THEN SqrtDigits(2 * root + 1, 4 * rem - (4 * root + 1), e - 1)
    ELSE SqrtDigits(2 * root, 4 * rem, e - 1)

Normal32(m, e) ==
    IF m = 2 ^ Binary32 THEN [m |-> 2 ^ (Binary32 - 1), e |-> e + 1]
    ELSE [m |-> m, e |-> e]

\* np.sqrt of the float32 n, an integer: the float32 nearest to its square root
Sqrt32(n) ==
    IF n = 0 THEN [m |-> 0, e |-> 0]
    ELSE LET d == SqrtDigits(IntSqrt(n), n - IntSqrt(n) * IntSqrt(n), 0)
             m == d.root \div 2
             up == d.root % 2 = 1 /\ (d.rem > 0 \/ m % 2 = 1)
         IN  Normal32(IF up THEN m + 1 ELSE m, d.e + 1)

\* the float32 sum of two float32, hi having the exponent not below lo's
Add32Ordered(hi, lo) ==
    LET d == hi.e - lo.e
    IN  IF d > Binary32 THEN hi
        ELSE LET q == lo.m \div 2 ^ d
                 r == lo.m % 2 ^ d
                 s == hi.m + q
             IN  IF s < 2 ^ Binary32
                 THEN LET up == 2 * r > 2 ^ d \/ (2 * r = 2 ^ d /\ s % 2 = 1)
                      IN  Normal32(IF up THEN s + 1 ELSE s, hi.e)
                 ELSE LET m == s \div 2
                          up == s % 2 = 1 /\ (r > 0 \/ m % 2 = 1)
                      IN  Normal32(IF up THEN m + 1 ELSE m, hi.e + 1)

Add32(a, b) ==
    IF a.m = 0 THEN b
    ELSE IF b.m = 0 THEN a
    ELSE IF a.e >= b.e THEN Add32Ordered(a, b) ELSE Add32Ordered(b, a)

\* x / 2
Half32(a) == IF a.m = 0 THEN a ELSE [m |-> a.m, e |-> a.e - 1]

Less32(a, b) ==
    IF b.m = 0 THEN FALSE
    ELSE IF a.m = 0 THEN TRUE
    ELSE a.e < b.e \/ (a.e = b.e /\ a.m < b.m)

-----------------------------------------------------------------------------
(* reorder_corners (card_warper.py) *)

\* line 24: points.sum(axis=1)
CornerSum(p) == p[1] + p[2]

\* the first column minus the second
CornerDiffReversed(p) == p[1] - p[2]

\* line 27: np.diff(points, axis=1), the second column minus the first
CornerDiff(p) == p[2] - p[1]

\* np.argmin / np.argmax: the first index of the least / greatest value
ArgMin(v) == CHOOSE i \in DOMAIN v :
                /\ \A j \in DOMAIN v : v[i] <= v[j]
                /\ \A j \in DOMAIN v : j < i => v[j] > v[i]

ArgMax(v) == CHOOSE i \in DOMAIN v :
                /\ \A j \in DOMAIN v : v[i] >= v[j]
                /\ \A j \in DOMAIN v : j < i => v[j] < v[i]

\* lines 13-20: anything but 4 points cannot be reshaped to 4x2
ReorderRaises(pts) == Len(pts) # 4

\* lines 23-30
reorder_corners(pts) ==
    LET s == [i \in DOMAIN pts |-> CornerSum(pts[i])]
        diff == [i \in DOMAIN pts |-> CornerDiff(pts[i])]
    IN  << pts[ArgMin(s)], pts[ArgMin(diff)], pts[ArgMax(s)], pts[ArgMax(diff)] >>

-----------------------------------------------------------------------------
(* warp_card_to_standard_ratio (card_warper.py) *)

\* line 8: 6.3 / 8.8
POKEMON_CARD_STD_ASPECT_RATIO ==
    FpDiv(Binary64, Literal(<<63, 10>>), Literal(<<88, 10>>))

\* line 7
POKEMON_CARD_STD_WIDTH == 250

\* line 9: int(POKEMON_CARD_STD_WIDTH / POKEMON_CARD_STD_ASPECT_RATIO)
POKEMON_CARD_STD_HEIGHT ==
    FpTrunc(FpDiv(Binary64, Float(POKEMON_CARD_STD_WIDTH),
                  POKEMON_CARD_STD_ASPECT_RATIO))

\* dot(p - q, p - q) before it is rounded to float32
NormSquared(p, q) ==
    (p[1] - q[1]) * (p[1] - q[1]) + (p[2] - q[2]) * (p[2] - q[2])

\* np.linalg.norm(p - q) of float32 points: sqrt(dot(p - q, p - q)) in float32
Norm32(p, q) == Sqrt32(RoundToBinary32(NormSquared(p, q)))

\* lines 56-63 and the test of line 66: avg_width > avg_height, in float32
AvgWidthExceedsAvgHeight(oc) ==
    LET tl == oc[1]
        tr == oc[2]
        br == oc[3]
        bl == oc[4]
        width_top == Norm32(tr, tl)
        width_bottom == Norm32(br, bl)
        avg_width == Half32(Add32(width_top, width_bottom))
        height_left == Norm32(bl, tl)
        height_right == Norm32(br, tr)
        avg_height == Half32(Add32(height_left, height_right))
    IN  Less32(avg_height, avg_width)

\* the standard size whatever the orientation
TargetSizeNeverSwapped(oc) == <<POKEMON_CARD_STD_WIDTH, POKEMON_CARD_STD_HEIGHT>>

\* lines 65-67: <<target_w, target_h>>
TargetSize(oc) ==
    IF AvgWidthExceedsAvgHeight(oc)
    THEN <<POKEMON_CARD_STD_HEIGHT, POKEMON_CARD_STD_WIDTH>>
    ELSE <<POKEMON_CARD_STD_WIDTH, POKEMON_CARD_STD_HEIGHT>>

\* lines 76-82: cv2.getPerspectiveTransform solves its 8x8 system without
\* checking that it has a solution and cv2.warpPerspective accepts any 3x3
\* matrix; cv2.error is raised for an image without pixels only
PerspectiveWarpRaises(img) == img = "empty"

NoImage == [kind |-> "None", w |-> 0, h |-> 0]

\* line 44
WarpInputRejected(img, corners) == img = "None" \/ Len(corners) # 4

\* lines 32-82
warp_card_to_standard_ratio(img, corners) ==
    IF WarpInputRejected(img, corners) THEN NoImage
    ELSE IF ReorderRaises(corners) THEN NoImage
    ELSE LET size == TargetSize(reorder_corners(corners))
         IN  IF PerspectiveWarpRaises(img) THEN NoImage
             ELSE [kind |-> "image", w |-> size[1], h |-> size[2]]

-----------------------------------------------------------------------------
(* detect_enhanced_card_contours (detect_card_test.py) *)

\* line 7: 6.3 / 8.8 ; line 8: 8.8 / 6.3
POKEMON_CARD_ASPECT_RATIO_PORTRAIT ==
    FpDiv(Binary64, Literal(<<63, 10>>), Literal(<<88, 10>>))
POKEMON_CARD_ASPECT_RATIO_LANDSCAPE ==
    FpDiv(Binary64, Literal(<<88, 10>>), Literal(<<63, 10>>))

\* line 9: 0.18
ASPECT_RATIO_TOLERANCE == Literal(<<18, 100>>)

\* line 12: 0.65 ; line 13: 0.99 ; line 31: the eccentricity 1
MIN_ECCENTRICITY == 6500
MAX_ECCENTRICITY == 9900
EccentricityOne == 10000

\* line 14: 0.92
MIN_CONVEXITY_RATIO == Literal(<<92, 100>>)

\* line 110: 0.008 ; line 111: 0.6
min_area_ratio == Literal(<<8, 1000>>)
max_area_ratio == Literal(<<6, 10>>)

NoneImage == [valid |-> FALSE, h |-> 0, w |-> 0]

NotReturned == [none |-> TRUE, cards |-> <<>>, debug |-> ""]

\* lines 16-39: 0 for fewer than 5 points and when cv2.fitEllipse fails, 1 for
\* an ellipse without a major axis, else sqrt(1 - (minor/major)^2), the value
\* fit_ecc the contour carries
calculate_eccentricity(cnt) ==
    IF cnt.n < 5 THEN 0
    ELSE IF cnt.fit_status = "error" THEN 0
    ELSE IF cnt.fit_status = "flat" THEN EccentricityOne
    ELSE cnt.fit_ecc

\* lines 42-59: contour_perimeter / hull_perimeter, 0 when it cannot be computed
calculate_convexity_ratio(cnt) ==
    IF cnt.n < 3 THEN FpZero
    ELSE IF cnt.hull_perimeter = 0 THEN FpZero
    ELSE FpDiv(Binary64, Float(cnt.contour_perimeter), Float(cnt.hull_perimeter))

\* line 112: min_area_ratio * shape[0] * shape[1]
min_contour_area(shape) ==
    FpMul(Binary64, FpMul(Binary64, min_area_ratio, Float(shape[1])), Float(shape[2]))

\* line 113: max_area_ratio * shape[0] * shape[1]
max_contour_area(shape) ==
    FpMul(Binary64, FpMul(Binary64, max_area_ratio, Float(shape[1])), Float(shape[2]))

\* min_contour_area <= area <= max_contour_area
AreaInRangeClosed(area, shape) ==
    /\ ~FpLess(Float(area), min_contour_area(shape))
    /\ ~FpLess(max_contour_area(shape), Float(area))

\* line 123: min_contour_area < area < max_contour_area
AreaInRange(area, shape) ==
    /\ FpLess(min_contour_area(shape), Float(area))
    /\ FpLess(Float(area), max_contour_area(shape))

\* lines 128-129: cv2.approxPolyDP(cnt, 0.03 * peri, True)
approxPolyDP(cnt) == cnt.approx

\* 4 vertices or more
AtLeastFourCorners(approx_corners) == Len(approx_corners) >= 4

\* line 131
FourCorners(approx_corners) == Len(approx_corners) = 4

MinOfSet(S) == CHOOSE x \in S : \A y \in S : x <= y

MaxOfSet(S) == CHOOSE x \in S : \A y \in S : x >= y

\* line 136: cv2.boundingRect of integer points, as <<w_br, h_br>>
boundingRect(approx_corners) ==
    LET xs == {approx_corners[k][1] : k \in DOMAIN approx_corners}
        ys == {approx_corners[k][2] : k \in DOMAIN approx_corners}
    IN  <<MaxOfSet(xs) - MinOfSet(xs) + 1, MaxOfSet(ys) - MinOfSet(ys) + 1>>

\* line 138: float(w_br) / h_br
AspectRatio(w_br, h_br) == FpDiv(Binary64, Float(w_br), Float(h_br))

\* lines 139-140: <<ratio * (1 - tolerance), ratio * (1 + tolerance)>>
ToleranceBounds(ratio) ==
    << FpMul(Binary64, ratio, FpSub(Binary64, Float(1), ASPECT_RATIO_TOLERANCE)),
       FpMul(Binary64, ratio, FpAdd(Binary64, Float(1), ASPECT_RATIO_TOLERANCE)) >>

PortraitBounds == ToleranceBounds(POKEMON_CARD_ASPECT_RATIO_PORTRAIT)

LandscapeBounds == ToleranceBounds(POKEMON_CARD_ASPECT_RATIO_LANDSCAPE)

\* lines 139-140: lower bound < aspect_ratio_br < upper bound
WithinTolerance(bounds, aspect_ratio_br) ==
    FpLess(bounds[1], aspect_ratio_br) /\ FpLess(aspect_ratio_br, bounds[2])

\* the portrait ratio only
AspectRatioPortraitOnly(box) ==
    /\ box[2] # 0
    /\ \E aspect_ratio_br \in {AspectRatio(box[1], box[2])} :
          WithinTolerance(PortraitBounds, aspect_ratio_br)

\* lines 137-142
AspectRatioMatches(box) ==
    /\ box[2] # 0
    /\ \E aspect_ratio_br \in {AspectRatio(box[1], box[2])} :
          \/ WithinTolerance(PortraitBounds, aspect_ratio_br)
          \/ WithinTolerance(LandscapeBounds, aspect_ratio_br)

\* the upper limit only
EccentricityBelowMaxOnly(eccentricity) == eccentricity < MAX_ECCENTRICITY

\* line 148
EccentricityInRange(eccentricity) ==
    MIN_ECCENTRICITY < eccentricity /\ eccentricity < MAX_ECCENTRICITY

\* line 154: not (convexity_ratio < MIN_CONVEXITY_RATIO)
ConvexEnough(convexity_ratio) == ~FpLess(convexity_ratio, MIN_CONVEXITY_RATIO)

\* lines 120-158: the continue statement that ends the iteration, or "accepted"
FilterStage(cnt, shape) ==
    IF ~AreaInRange(cnt.area, shape) THEN "area"
    ELSE IF ~FourCorners(approxPolyDP(cnt)) THEN "corners"
    ELSE IF ~AspectRatioMatches(boundingRect(approxPolyDP(cnt))) THEN "aspect"
    ELSE IF ~EccentricityInRange(calculate_eccentricity(cnt)) THEN "eccentricity"
    ELSE IF ~ConvexEnough(calculate_convexity_ratio(cnt)) THEN "convexity"
    ELSE "accepted"

\* line 81: scale = 1.0
NoResizeScale == Float(1)

\* line 84 and detect_card.py line 16: resize_height / orig_h
ScaleValue(rh, orig_h) == FpDiv(Binary64, Float(rh), Float(orig_h))

\* line 160: (approx_corners / scale).astype(np.int32), coordinates being >= 0
ScaledBack(approx_corners, sc) ==
    [k \in DOMAIN approx_corners |->
        << FpTrunc(FpDiv(Binary64, Float(approx_corners[k][1]), sc)),
           FpTrunc(FpDiv(Binary64, Float(approx_corners[k][2]), sc)) >>]

\* lines 79-86: <<scale, <<height, width>> of the processed image>>, the
\* width being int(orig_w * scale)
Processed(img, rh) ==
    IF rh # 0
    THEN LET sc == ScaleValue(rh, img.h)
         IN  <<sc, <<rh, FpTrunc(FpMul(Binary64, Float(img.w), sc))>> >>
    ELSE <<NoResizeScale, <<img.h, img.w>> >>

-----------------------------------------------------------------------------
(* detect_card_boxes (detect_card.py) *)

\* line 15
BoxesResizeHeight == 1000

\* line 29
min_area == 250

\* lines 36-37, with max_area of line 30
BoxesAreaInRange(area, shape) ==
    ~(area < min_area \/ area > 1 * shape[1] * shape[2])

\* lines 33-44: per contour, the test that skipped it or "accepted"
RECURSIVE BoxesStages(_, _, _)
BoxesStages(cnts, shape, k) ==
    IF k > Len(cnts) THEN <<>>
    ELSE << IF ~BoxesAreaInRange(cnts[k].area, shape) THEN "area"
            ELSE IF Len(cnts[k].approx) = 4 THEN "accepted"
            ELSE "corners" >> \o BoxesStages(cnts, shape, k + 1)

\* lines 32-44: card_contours, the approximations as they are
RECURSIVE BoxesCards(_, _, _)
BoxesCards(cnts, shape, k) ==
    IF k > Len(cnts) THEN <<>>
    ELSE (IF BoxesAreaInRange(cnts[k].area, shape) /\ Len(cnts[k].approx) = 4
          THEN <<cnts[k].approx>> ELSE <<>>) \o BoxesCards(cnts, shape, k + 1)

-----------------------------------------------------------------------------
(* Inputs *)

\* "0f0f00000000000d" for a last digit d
CardHash(d) == <<0, 15, 0, 15, 0, 0, 0, 0, 0, 0, 0, 0, 0, 0, 0, d>>

HashA == CardHash(0)          \* "0f0f000000000000"
HashB == CardHash(1)          \* "0f0f000000000001"
HashB9 == CardHash(9)         \* "0f0f000000000009"

Short15 == SubSeq(HashA, 1, 15)      \* 15 characters: an 8x7 bit array
Long17 == <<0>> \o HashB             \* 17 characters, 64 significant bits: 8x8
Ragged17 == <<1>> \o HashA           \* 17 characters, 65 bits: rows of unequal length

\* "+f0f000000000000" and "-f0f000000000000": int(s, 16) reads both; the first
\* has the bits of HashA, the binary form of the second has a '-'
SignedHash == <<PlusChar>> \o Tail(HashA)
NegativeHash == <<MinusChar>> \o Tail(HashA)

HashPool == {HashA, HashB, CardHash(2), CardHash(3), CardHash(8),
             Short15, Long17, Ragged17, SignedHash, NegativeHash}

QueryPool == {HashA, CardHash(5)}

FlipBits(bits, I) == [k \in DOMAIN bits |-> IF k \in I THEN 1 - bits[k] ELSE bits[k]]

ScenarioQueries ==
    {HashToHex(FlipBits(hex_to_hash(HashA), {p[1], p[2]})) :
        p \in {q \in (1..PhashBits) \X (1..PhashBits) : q[1] < q[2]}}

SeqsUpTo(S, n) == UNION {[1..k -> S] : k \in 0..n}

Points == (0..MaxCoord) \X (0..MaxCoord)

MatcherIdle ==
    /\ json_records = <<>> /\ hashed_data = <<>> /\ image = "missing"
    /\ input_phash = HashA /\ T1 = 0 /\ T2 = 0 /\ pc = "idle" /\ called = ""
    /\ ret = None /\ metric = "" /\ distance = Inf /\ raised = ""

CornersIdle ==
    /\ points = <<>> /\ rect = <<>> /\ rect2 = <<>> /\ cpc = "idle"

WarpIdle ==
    /\ warp_image = "None" /\ corners_on_original_image = <<>>
    /\ ordered_corners = <<>> /\ warped_image = NoImage /\ wpc = "idle"

DetectIdle ==
    /\ routine = "" /\ image_bgr = NoneImage /\ resize_height = 0
    /\ contours = <<>> /\ scale = NoResizeScale /\ processed_shape = <<0, 0>>
    /\ cnt_index = 1 /\ detected_card_scaled_corners = <<>> /\ stages = <<>>
    /\ detection = NotReturned /\ dpc = "idle"

PipelineIdle == WarpIdle /\ DetectIdle

MatcherStart ==
    /\ hashed_data = <<>> /\ pc = "load" /\ called = ""
    /\ ret = None /\ metric = "" /\ distance = Inf /\ raised = ""

InitMatch ==
    /\ json_records \in SeqsUpTo(HashPool, MaxCatalog)
    /\ image \in {"missing", "unreadable", "ok"}
    /\ input_phash \in (IF image = "ok" THEN QueryPool ELSE {HashA})
    /\ T1 \in (0..MaxT1) \cup {Inf}
    /\ T2 \in (0..MaxT2) \cup {Inf}
    /\ MatcherStart
    /\ CornersIdle
    /\ PipelineIdle

\* The catalog of the tie-break scenario, and every query at Hamming distance 2
\* from "0f0f000000000000"
InitScenario ==
    /\ json_records \in {<<HashA, HashB>>, <<HashB, HashA>>,
                          <<HashA, HashB9>>, <<HashB9, HashA>>}
    /\ image = "ok"
    /\ input_phash \in ScenarioQueries
    /\ T1 \in 2..MaxT1
    /\ T2 = 10
    /\ MatcherStart
    /\ CornersIdle
    /\ PipelineIdle

\* Catalogs of TieCatalogSize fingerprints at Hamming distance 1 or 2 from
\* "0f0f000000000000", queried with it and with "0f0f000000000005"
InitTieBreak ==
    /\ json_records \in [1..TieCatalogSize ->
                            {CardHash(1), CardHash(2), CardHash(3), CardHash(8)}]
    /\ image = "ok"
    /\ input_phash \in QueryPool
    /\ T1 \in (0..MaxT1) \cup {Inf}
    /\ T2 \in (0..MaxT2) \cup {Inf}
    /\ MatcherStart
    /\ CornersIdle
    /\ PipelineIdle

InitCorners ==
    /\ points \in [1..4 -> Points]
    /\ rect = <<>> /\ rect2 = <<>> /\ cpc = "input"
    /\ MatcherIdle
    /\ PipelineIdle

\* an image with 3, 4 or 5 corners, and no image or an image without pixels
\* with 4 corners
WarpCases == {<<"ok", 3>>, <<"ok", 4>>, <<"ok", 5>>, <<"None", 4>>, <<"empty", 4>>}

CornersOfCount(p, n) ==
    IF n = 3 THEN SubSeq(p, 1, 3)
    ELSE IF n = 4 THEN p
    ELSE p \o <<p[1]>>

\* corners whose two averaged edge lengths are both 9 sqrt(2) / 2 and differ
\* once the lengths are rounded to float32
RoundingTieCorners == << <<3, 0>>, <<0, 3>>, <<4, 7>>, <<10, 1>> >>

InitWarp ==
    /\ \E p \in [1..4 -> Points] \cup {RoundingTieCorners}, c \in WarpCases :
          /\ warp_image = c[1]
          /\ corners_on_original_image = CornersOfCount(p, c[2])
    /\ ordered_corners = <<>> /\ warped_image = NoImage /\ wpc = "call"
    /\ MatcherIdle
    /\ CornersIdle
    /\ DetectIdle

\* A contour whose approximation is the rectangle (0,0), (wd,0), (wd,ht), (0,ht):
\* n points, the ellipse fit st with eccentricity ecc, and a perimeter longer
\* than the hull's by extra
RectContour(wd, ht, n, st, ecc, extra) ==
    [area |-> wd * ht, n |-> n,
     approx |-> << <<0, 0>>, <<wd, 0>>, <<wd, ht>>, <<0, ht>> >>,
     fit_status |-> st, fit_ecc |-> ecc,
     contour_perimeter |-> 2 * (wd + ht) + extra,
     hull_perimeter |-> 2 * (wd + ht)]

\* a card of 63 x 88 pixels, upright and lying
CardContour == RectContour(62, 87, 8, "ok", 6982, 0)
LyingCardContour == RectContour(87, 62, 8, "ok", 6982, 0)

\* the same rectangle as its 4 corner points only (cv2.CHAIN_APPROX_SIMPLE)
FourPointCardContour == RectContour(62, 87, 4, "error", 0, 0)

\* a disc of radius 50: an octagon once approximated, a fitted circle
CircleContour ==
    [area |-> 7850, n |-> 60,
     approx |-> << <<30, 0>>, <<70, 0>>, <<100, 30>>, <<100, 70>>,
                   <<70, 100>>, <<30, 100>>, <<0, 70>>, <<0, 30>> >>,
     fit_status |-> "ok", fit_ecc |-> 0,
     contour_perimeter |-> 314, hull_perimeter |-> 314]

\* a sliver of 10 x 400 pixels
SliverContour == RectContour(9, 399, 8, "ok", 9997, 0)

ContourPool ==
    {CardContour, LyingCardContour, FourPointCardContour, CircleContour,
     SliverContour,
     RectContour(30, 40, 8, "ok", 6614, 0),      \* 0.008 of a 500 x 300 frame
     RectContour(250, 360, 8, "ok", 7195, 0),    \* 0.6 of a 500 x 300 frame
     RectContour(62, 87, 8, "ok", 6500, 0),
     RectContour(62, 87, 8, "ok", 9900, 0),
     RectContour(62, 87, 8, "ok", 9997, 0),
     RectContour(62, 87, 8, "error", 0, 0),
     RectContour(62, 87, 8, "flat", 0, 0),
     RectContour(62, 87, 12, "ok", 6982, 40),
     RectContour(6, 8, 8, "ok", 6614, 0),
     RectContour(34, 51, 8, "ok", 7395, 0),      \* 0.008 of a 578 x 375 frame
     RectContour(70, 105, 8, "ok", 7454, 0)}     \* 70 / (700 / 1200) < 120

\* <<image, resize_height>>: frames of 1000 x 600, 500 x 300 and 250 x 150
\* pixels processed at height 500, a frame of 1200 x 1000 processed at height
\* 700 (scale 0.5833333333333334), frames processed as they are (on 578 x 375
\* the product 0.008 * 578 * 375 is 1733.9999999999998), no image
DetectCases ==
    {<<[valid |-> TRUE, h |-> 1000, w |-> 600], 500>>,
     <<[valid |-> TRUE, h |-> 500, w |-> 300], 500>>,
     <<[valid |-> TRUE, h |-> 250, w |-> 150], 500>>,
     <<[valid |-> TRUE, h |-> 1200, w |-> 1000], 700>>,
     <<[valid |-> TRUE, h |-> 500, w |-> 300], 0>>,
     <<[valid |-> TRUE, h |-> 578, w |-> 375], 0>>,
     <<NoneImage, 500>>}

InitDetect ==
    /\ routine \in {"detect_enhanced_card_contours", "detect_card_boxes"}
    /\ \E c \in DetectCases : image_bgr = c[1] /\ resize_height = c[2]
    /\ contours \in (IF image_bgr.valid THEN SeqsUpTo(ContourPool, MaxContours)
                      ELSE {<<>>})
    /\ scale = NoResizeScale /\ processed_shape = <<0, 0>>
    /\ cnt_index = 1 /\ detected_card_scaled_corners = <<>> /\ stages = <<>>
    /\ detection = NotReturned /\ dpc = "start"
    /\ MatcherIdle
    /\ CornersIdle
    /\ WarpIdle

Init ==
    InitMatch \/ InitCorners \/ InitScenario \/ InitTieBreak \/ InitWarp
        \/ InitDetect

-----------------------------------------------------------------------------
(* Operations *)

\* load_hashed_data: the list, or None when any record fails to convert
LoadHashedData ==
    /\ pc = "load"
    /\ IF LoadFails(json_records)
       THEN /\ pc' = "load_failed"
            /\ hashed_data' = hashed_data
       ELSE /\ pc' = "loaded"
            /\ hashed_data' = load_hashed_data(json_records)
    /\ UNCHANGED <<json_records, image, input_phash, T1, T2, called, ret, metric,
                   distance, raised>>
    /\ UNCHANGED cornerVars
    /\ UNCHANGED pipelineVars

Outcome(r, name) ==
    /\ pc' = "done"
    /\ called' = name
    /\ ret' = r.ret
    /\ metric' = r.metric
    /\ distance' = r.distance
    /\ raised' = r.raised
    /\ UNCHANGED <<json_records, hashed_data, image, input_phash, T1, T2>>
    /\ UNCHANGED cornerVars
    /\ UNCHANGED pipelineVars

FindMatchingCardWithTiebreak ==
    /\ pc = "loaded"
    /\ Outcome(find_matching_card_with_tiebreak(image, input_phash, hashed_data, T1, T2),
               "find_matching_card_with_tiebreak")

FindMatchingCard ==
    /\ pc = "loaded"
    /\ Outcome(find_matching_card(image, input_phash, hashed_data, T1),
               "find_matching_card")

ReorderCorners ==
    /\ cpc = "input"
    /\ ~ReorderRaises(points)
    /\ rect' = reorder_corners(points)
    /\ cpc' = "ordered"
    /\ UNCHANGED <<points, rect2>>
    /\ UNCHANGED matcherVars
    /\ UNCHANGED pipelineVars

ReorderAgain ==
    /\ cpc = "ordered"
    /\ rect2' = reorder_corners(rect)
    /\ cpc' = "reordered"
    /\ UNCHANGED <<points, rect>>
    /\ UNCHANGED matcherVars
    /\ UNCHANGED pipelineVars

WarpCardToStandardRatio ==
    /\ wpc = "call"
    /\ warped_image' = warp_card_to_standard_ratio(warp_image, corners_on_original_image)
    /\ ordered_corners' =
          IF WarpInputRejected(warp_image, corners_on_original_image)
             \/ ReorderRaises(corners_on_original_image)
          THEN <<>>
          ELSE reorder_corners(corners_on_original_image)
    /\ wpc' = "returned"
    /\ UNCHANGED <<warp_image, corners_on_original_image>>
    /\ UNCHANGED matcherVars
    /\ UNCHANGED cornerVars
    /\ UNCHANGED detectVars

DetectUnchanged ==
    /\ UNCHANGED <<routine, image_bgr, resize_height, contours>>
    /\ UNCHANGED matcherVars
    /\ UNCHANGED cornerVars
    /\ UNCHANGED warpVars

\* detect_enhanced_card_contours, lines 75-118: up to the contour loop
DetectEnhancedStart ==
    /\ dpc = "start"
    /\ routine = "detect_enhanced_card_contours"
    /\ IF ~image_bgr.valid
       THEN /\ detection' = [none |-> FALSE, cards |-> <<>>, debug |-> "None"]
            /\ dpc' = "returned"
            /\ UNCHANGED <<scale, processed_shape>>
       ELSE /\ \E pr \in {Processed(image_bgr, resize_height)} :
                  scale' = pr[1] /\ processed_shape' = pr[2]
            /\ dpc' = "loop"
            /\ UNCHANGED detection
    /\ UNCHANGED <<cnt_index, detected_card_scaled_corners, stages>>
    /\ DetectUnchanged

\* lines 120-162: one iteration of the contour loop
DetectEnhancedContour ==
    /\ dpc = "loop"
    /\ cnt_index <= Len(contours)
    /\ \E stage \in {FilterStage(contours[cnt_index], processed_shape)} :
          /\ stages' = Append(stages, stage)
          /\ detected_card_scaled_corners' =
                IF stage = "accepted"
                THEN Append(detected_card_scaled_corners,
                            ScaledBack(approxPolyDP(contours[cnt_index]), scale))
                ELSE detected_card_scaled_corners
    /\ cnt_index' = cnt_index + 1
    /\ UNCHANGED <<scale, processed_shape, detection, dpc>>
    /\ DetectUnchanged

\* lines 163-170
DetectEnhancedReturn ==
    /\ dpc = "loop"
    /\ cnt_index > Len(contours)
    /\ detection' = [none |-> FALSE, cards |-> detected_card_scaled_corners,
                     debug |-> "image"]
    /\ dpc' = "returned"
    /\ UNCHANGED <<scale, processed_shape, cnt_index, detected_card_scaled_corners,
                   stages>>
    /\ DetectUnchanged

\* detect_card_boxes, lines 4-46
DetectCardBoxes ==
    /\ dpc = "start"
    /\ routine = "detect_card_boxes"
    /\ IF ~image_bgr.valid
       THEN /\ detection' = [none |-> TRUE, cards |-> <<>>, debug |-> ""]
            /\ UNCHANGED <<scale, processed_shape, cnt_index, stages>>
       ELSE \E pr \in {Processed(image_bgr, BoxesResizeHeight)} :
                /\ scale' = pr[1]
                /\ processed_shape' = pr[2]
                /\ stages' = BoxesStages(contours, pr[2], 1)
                /\ cnt_index' = Len(contours) + 1
                /\ detection' = [none |-> FALSE,
                                 cards |-> BoxesCards(contours, pr[2], 1),
                                 debug |-> ""]
    /\ dpc' = "returned"
    /\ UNCHANGED detected_card_scaled_corners
    /\ DetectUnchanged

NextMatch == LoadHashedData \/ FindMatchingCardWithTiebreak \/ FindMatchingCard

NextCorners == ReorderCorners \/ ReorderAgain

NextWarp == WarpCardToStandardRatio

NextDetect ==
    DetectEnhancedStart \/ DetectEnhancedContour \/ DetectEnhancedReturn
        \/ DetectCardBoxes

Next ==
    NextMatch \/ NextCorners \/ NextWarp \/ NextDetect

Spec == Init /\ [][Next]_vars

SpecMatch == InitMatch /\ [][NextMatch]_vars

SpecCorners == InitCorners /\ [][NextCorners]_vars

SpecScenario == InitScenario /\ [][NextMatch]_vars

SpecTieBreak == InitTieBreak /\ [][NextMatch]_vars

SpecWarp == InitWarp /\ [][NextWarp]_vars

SpecDetect == InitDetect /\ [][NextDetect]_vars

-----------------------------------------------------------------------------
(* The matcher's contract, stated on fingerprints: the Hamming distance is the
   number of differing bits of two hexadecimal strings of one length, the
   secondary distance the sum of the absolute differences of their digits. *)

V2 == "find_matching_card_with_tiebreak"
V1 == "find_matching_card"

Catalog == DOMAIN hashed_data

Fingerprint(i) == hashed_data[i].hash

SameLength(i) == Len(Fingerprint(i)) = Len(input_phash)

AllSameLength == \A i \in Catalog : SameLength(i)

\* every fingerprint of the catalog is a string of hexadecimal digits
AllHexDigits ==
    \A i \in Catalog : \A k \in DOMAIN Fingerprint(i) : Fingerprint(i)[k] \in 0..15

DigitBitsApart(x, y) == Cardinality({k \in 1..4 : NibbleBits(x)[k] # NibbleBits(y)[k]})

RECURSIVE Hamming(_, _)
Hamming(a, b) ==
    IF a = <<>> THEN 0
    ELSE DigitBitsApart(Head(a), Head(b)) + Hamming(Tail(a), Tail(b))

RECURSIVE DigitDistance(_, _)
DigitDistance(a, b) ==
    IF a = <<>> THEN 0
    ELSE (IF Head(a) >= Head(b) THEN Head(a) - Head(b) ELSE Head(b) - Head(a))
         + DigitDistance(Tail(a), Tail(b))

HD(i) == Hamming(input_phash, Fingerprint(i))

SD(i) == DigitDistance(input_phash, Fingerprint(i))

MinOf(f, S) == CHOOSE d \in {f[i] : i \in S} : \A i \in S : d <= f[i]

\* D_min, the set S of entries attaining it, the least secondary distance over S
\* and the first entry of S, in catalog order, attaining that
Ranking ==
    LET hd == [i \in Catalog |-> HD(i)]
        dmin == MinOf(hd, Catalog)
        tied == {i \in Catalog : hd[i] = dmin}
        sd == [i \in tied |-> SD(i)]
        sdmin == MinOf(sd, tied)
        first == CHOOSE i \in tied :
                    /\ sd[i] = sdmin
                    /\ \A j \in tied : sd[j] = sdmin => i <= j
    IN  [DMin |-> dmin, S |-> tied, SD |-> sd, SDMin |-> sdmin, FirstBest |-> first]

Queried ==
    /\ pc = "done" /\ image = "ok" /\ hashed_data # <<>>
    /\ AllSameLength /\ AllHexDigits

\* C1: a query whose minimum Hamming distance over a non-empty catalog exceeds T1
\* gets no-match from both matchers, whatever T2 is.
C1_NoMatchAboveT1 ==
    Queried => LET r == Ranking
               IN  r.DMin > T1 => (ret = None /\ raised = "")

\* C1's case: the tie-break matcher answers no-match although T2 would accept
\* every entry of the catalog.
C1_Witness ==
    /\ Queried /\ called = V2
    /\ Ranking.DMin > T1
    /\ \A i \in Catalog : SD(i) <= T2
    /\ ret = None

\* C2: a single closest entry within T1 is returned with the Hamming metric and
\* the distance D_min; T2 is not consulted.
C2_UniqueMin ==
    (Queried /\ called = V2)
        => LET r == Ranking
           IN  (r.DMin <= T1 /\ Cardinality(r.S) = 1)
                   => /\ ret \in r.S
                      /\ metric = METRIC_HAMMING
                      /\ distance = r.DMin
                      /\ raised = ""

\* C2's case: the single closest entry is returned although its secondary
\* distance exceeds T2.
C2_Witness ==
    /\ Queried /\ called = V2
    /\ Len(hashed_data) > 1
    /\ LET r == Ranking
       IN  /\ r.DMin <= T1 /\ Cardinality(r.S) = 1
           /\ ret \in r.S /\ r.SDMin > T2

\* C3: among two or more entries tied at D_min <= T1 the matcher selects the one
\* with the least secondary distance, the first in catalog order if several
\* share it: it is what is returned when the tie-break is accepted, and nothing
\* else is ever returned.
C3_TieBreakSelection ==
    (Queried /\ called = V2)
        => LET r == Ranking
           IN  (r.DMin <= T1 /\ Cardinality(r.S) >= 2)
                   => /\ raised = ""
                      /\ ret # None => (ret = r.FirstBest /\ metric = METRIC_CUSTOM
                                        /\ distance = r.SDMin)
                      /\ r.SDMin <= T2 => ret = r.FirstBest

\* C3's case: two different fingerprints tie on both distances and the earlier
\* one is returned.
C3_Witness ==
    /\ Queried /\ called = V2
    /\ LET r == Ranking
       IN  /\ r.DMin <= T1
           /\ \E i, j \in r.S :
                 /\ i < j /\ Fingerprint(i) # Fingerprint(j)
                 /\ r.SD[i] = r.SDMin /\ r.SD[j] = r.SDMin
                 /\ ret = i

\* C4: a tie whose least secondary distance exceeds T2 gets no-match although
\* D_min <= T1; a least secondary distance equal to T2 is accepted.
C4_TieBreakThreshold ==
    (Queried /\ called = V2)
        => LET r == Ranking
           IN  (r.DMin <= T1 /\ Cardinality(r.S) >= 2)
                   => /\ r.SDMin > T2 => (ret = None /\ raised = "")
                      /\ r.SDMin = T2 => ret = r.FirstBest

\* C4's case: a tie within T1 is refused by T2.
C4_Witness ==
    /\ Queried /\ called = V2
    /\ LET r == Ranking
       IN  /\ r.DMin <= T1 /\ Cardinality(r.S) >= 2
           /\ r.SDMin = T2 + 1
           /\ ret = None

\* C6: with an empty catalog both matchers return no-match and raise nothing,
\* for every query and every pair of thresholds.
C6_EmptyCatalog ==
    (pc = "done" /\ hashed_data = <<>>) => (ret = None /\ raised = "")

\* C6's case: a readable query against the empty catalog under unbounded thresholds.
C6_Witness ==
    /\ pc = "done" /\ hashed_data = <<>> /\ image = "ok"
    /\ T1 = Inf /\ T2 = Inf /\ called = V1
    /\ ret = None

\* C7: an entry whose fingerprint differs in length from the query's is never
\* compared: the query completes without raising and never returns such an entry.
C7_LengthMismatchIsNonMatch ==
    (pc = "done" /\ image = "ok")
        => /\ raised = ""
           /\ ret # None => SameLength(ret)

\* C8: the value returned when the query could not be processed (image missing
\* or unreadable) differs from the value returned for no-match.
C8_NoMatchDistinctFromFailure ==
    (pc = "done" /\ called = V2 /\ image # "ok" /\ hashed_data # <<>>)
        => ret # NoMatch.ret

\* C5, as stated: for the catalog {A: "0f0f000000000000", B: "0f0f000000000001"}
\* there is a query at Hamming distance 2 from both, at secondary distance 5
\* from A and 12 from B, and with T2 = 10 the matcher returns A by the tie-break.
\* ScenarioQueries holds every fingerprint at Hamming distance 2 from A.
C5_ScenarioAsStated ==
    (pc = "loaded" /\ json_records = <<HashA, HashB>>)
        => \E q \in ScenarioQueries :
              /\ Hamming(q, HashA) = 2 /\ Hamming(q, HashB) = 2
              /\ DigitDistance(q, HashA) = 5 /\ DigitDistance(q, HashB) = 12
              /\ LET m == find_matching_card_with_tiebreak("ok", q, hashed_data, T1, T2)
                 IN  m.ret = 1 /\ m.metric = METRIC_CUSTOM

\* C5, amended: with B = "0f0f000000000009" a query at Hamming distance 2 from
\* both, at secondary distance 5 from A and 12 from B, gets A by the tie-break
\* when T2 = 10 and T1 >= 2; with B = "0f0f000000000001" no query is at Hamming
\* distance 2 from both A and B.
C5_ScenarioAmended ==
    (pc = "done" /\ called = V2 /\ T2 = 10 /\ T1 >= 2)
        => \A a, b \in Catalog :
              /\ (/\ Fingerprint(a) = HashA /\ Fingerprint(b) = HashB9
                  /\ HD(a) = 2 /\ HD(b) = 2 /\ SD(a) = 5 /\ SD(b) = 12)
                    => (ret = a /\ metric = METRIC_CUSTOM /\ distance = 5)
              /\ (Fingerprint(a) = HashA /\ Fingerprint(b) = HashB)
                    => ~(HD(a) = 2 /\ HD(b) = 2)

\* C5's case: the amended scenario occurs and A is returned.
C5_Witness ==
    /\ pc = "done" /\ called = V2 /\ T2 = 10 /\ T1 >= 2
    /\ \E a, b \in Catalog :
          /\ Fingerprint(a) = HashA /\ Fingerprint(b) = HashB9
          /\ HD(a) = 2 /\ HD(b) = 2 /\ SD(a) = 5 /\ SD(b) = 12
          /\ ret = a /\ metric = METRIC_CUSTOM

\* C22: an entry returned by find_matching_card_with_tiebreak, by either
\* metric, is an entry of the catalog at the least Hamming distance of all
\* entries, which is at most T1; the tie-break picks inside the set of entries
\* at that distance; the catalog is after the query what load_hashed_data made.
C22_ReturnedIsClosest ==
    (Queried /\ called = V2 /\ ret # None) =>
        LET r == Ranking
        IN  /\ ret \in Catalog
            /\ HD(ret) = r.DMin
            /\ \A i \in Catalog : HD(ret) <= HD(i)
            /\ r.DMin <= T1
            /\ metric = METRIC_CUSTOM => ret \in r.S
            /\ hashed_data = load_hashed_data(json_records)

\* C22's case: the tie-break returned one of several tied entries, from a
\* catalog that also holds an entry farther away with a smaller secondary
\* distance.
C22_Witness ==
    /\ Queried /\ called = V2 /\ ret # None /\ metric = METRIC_CUSTOM
    /\ \E i \in Catalog : HD(i) = HD(ret) /\ i # ret
    /\ \E j \in Catalog : HD(j) > HD(ret) /\ SD(j) < SD(ret)

\* The entry find_matching_card returns for the query of this state: the one
\* the state holds when it was the matcher called, else its answer to the same
\* image, catalog and T1.
AnswerV1 ==
    IF called = V1 THEN ret
    ELSE find_matching_card(image, input_phash, hashed_data, T1).ret

\* The same for find_matching_card_with_tiebreak, with the state's T2.
AnswerV2 ==
    IF called = V2 THEN ret
    ELSE find_matching_card_with_tiebreak(image, input_phash, hashed_data, T1, T2).ret

\* C23: on the same query, catalog and T1, whenever find_matching_card_with_tiebreak
\* returns an entry, find_matching_card returns one at the same Hamming distance,
\* the first closest entry of the catalog; the two answers are identical when a
\* single entry is closest; find_matching_card_with_tiebreak never returns an
\* entry where find_matching_card returns no-match.
C23_WithoutTieBreakAgrees ==
    Queried =>
        LET r == Ranking
        IN  /\ AnswerV2 # None =>
                /\ AnswerV1 # None
                /\ HD(AnswerV1) = HD(AnswerV2)
            /\ AnswerV1 # None => \A i \in r.S : AnswerV1 <= i
            /\ Cardinality(r.S) = 1 => AnswerV1 = AnswerV2
            /\ AnswerV1 = None => AnswerV2 = None

\* C23's case: find_matching_card_with_tiebreak was called and answered no-match
\* on tied entries whose secondary distances all exceed T2, where
\* find_matching_card returns the first of them.
C23_Witness ==
    /\ Queried /\ called = V2 /\ ret = None /\ raised = ""
    /\ Cardinality(Ranking.S) >= 2
    /\ AnswerV1 # None /\ AnswerV1 \in Ranking.S

-----------------------------------------------------------------------------
(* The corner orderer's contract *)

PSum(p) == p[1] + p[2]

XMinusY(p) == p[1] - p[2]

YMinusX(p) == p[2] - p[1]

IsInput(p) == \E i \in DOMAIN points : points[i] = p

LeastBy(F(_), p) == IsInput(p) /\ \A i \in DOMAIN points : F(p) <= F(points[i])

GreatestBy(F(_), p) == IsInput(p) /\ \A i \in DOMAIN points : F(p) >= F(points[i])

Ordered == cpc \in {"ordered", "reordered"}

Distinct(pts) == \A i, j \in DOMAIN pts : i # j => pts[i] # pts[j]

Cross(o, a, b) == (a[1] - o[1]) * (b[2] - o[2]) - (a[2] - o[2]) * (b[1] - o[1])

SegmentsCross(a, b, c, d) ==
    /\ Cross(a, b, c) * Cross(a, b, d) < 0
    /\ Cross(c, d, a) * Cross(c, d, b) < 0

\* the points, taken in their order, are the vertices of a simple quadrilateral
SimpleQuadrilateral(pts) ==
    /\ Len(pts) = 4
    /\ Distinct(pts)
    /\ \A i, j, k \in 1..4 : (i < j /\ j < k) => Cross(pts[i], pts[j], pts[k]) # 0
    /\ ~SegmentsCross(pts[1], pts[2], pts[3], pts[4])
    /\ ~SegmentsCross(pts[2], pts[3], pts[4], pts[1])

\* C9, as stated: index 0 has the least x+y, index 2 the greatest x+y, index 1
\* the least x-y and index 3 the greatest x-y.
C9_SumDiffRuleAsStated ==
    Ordered => /\ LeastBy(PSum, rect[1])
               /\ GreatestBy(PSum, rect[3])
               /\ LeastBy(XMinusY, rect[2])
               /\ GreatestBy(XMinusY, rect[4])

\* C9, amended: the difference is y-x: index 0 has the least x+y, index 2 the
\* greatest x+y, index 1 the least y-x and index 3 the greatest y-x.
C9_SumDiffRule ==
    Ordered => /\ LeastBy(PSum, rect[1])
               /\ GreatestBy(PSum, rect[3])
               /\ LeastBy(YMinusX, rect[2])
               /\ GreatestBy(YMinusX, rect[4])

\* C9's case: a simple quadrilateral whose top-right and bottom-left corners
\* differ in y-x has been ordered.
C9_Witness ==
    /\ cpc = "ordered" /\ SimpleQuadrilateral(points)
    /\ YMinusX(rect[2]) < YMinusX(rect[4])
    /\ PSum(rect[1]) < PSum(rect[3])

\* C10: ordering the output of reorder_corners again returns it unchanged, for
\* every simple quadrilateral of 4 distinct points.
C10_Idempotent ==
    (cpc = "reordered" /\ SimpleQuadrilateral(points)) => rect2 = rect

\* the sequence b holds every point of a as often as a does
PermutationOf(a, b) ==
    /\ Len(a) = Len(b)
    /\ \A p \in Points :
          Cardinality({i \in DOMAIN a : a[i] = p})
            = Cardinality({i \in DOMAIN b : b[i] = p})

\* C11: the output of reorder_corners is a permutation of its 4 distinct input
\* points: no point is duplicated and none is dropped, ties of the sums or of
\* the differences included.
C11_OutputIsPermutation ==
    (Ordered /\ Distinct(points)) => PermutationOf(points, rect)

-----------------------------------------------------------------------------
(* The rectifier's contract *)

Warped == wpc = "returned"

ImageReturned == Warped /\ warped_image.kind = "image"

\* three of the corners lie on one line (two equal corners included): no
\* perspective transform takes them to the corners of a rectangle
Degenerate(pts) ==
    \E i, j, k \in DOMAIN pts :
        i < j /\ j < k /\ Cross(pts[i], pts[j], pts[k]) = 0

\* C12: warp_card_to_standard_ratio returns None, and no image, whenever the
\* corner input has fewer or more than 4 points or the 4 corners are degenerate
\* (collinear), which makes the perspective transform singular.
C12_NoneOnBadGeometry ==
    (Warped /\ (Len(corners_on_original_image) # 4
                \/ Degenerate(corners_on_original_image)))
        => warped_image.kind = "None"

\* C13, as stated: every image produced has the same dimensions, 250 wide and
\* 349 high, quadrilaterals wider than tall included.
C13_ConstantSizeAsStated ==
    ImageReturned => (warped_image.w = 250 /\ warped_image.h = 349)

EdgeSquared(i, j) == NormSquared(ordered_corners[i], ordered_corners[j])

\* the float32 length of the edge between ordered corners i and j
EdgeLength(i, j) == Sqrt32(RoundToBinary32(EdgeSquared(i, j)))

\* the average of the top and bottom edges exceeds the average of the left and
\* right edges, lengths and averages being float32 values
WiderThanTall ==
    Less32(Half32(Add32(EdgeLength(4, 1), EdgeLength(3, 2))),
           Half32(Add32(EdgeLength(2, 1), EdgeLength(3, 4))))

\* short : long is 6.3 : 8.8 within one pixel
CardRatio(short, long) ==
    /\ short * 88 - long * 63 <= 88
    /\ long * 63 - short * 88 <= 88

\* C13, amended: every image produced is 250 wide and 349 high, or 349 wide and
\* 250 high when the averaged top/bottom edge, computed in float32, is longer
\* than the averaged left/right edge; in both the sides are in the ratio
\* 6.3:8.8 within a pixel.
C13_StandardSize ==
    ImageReturned =>
        /\ IF WiderThanTall
           THEN warped_image.w = 349 /\ warped_image.h = 250
           ELSE warped_image.w = 250 /\ warped_image.h = 349
        /\ IF warped_image.w < warped_image.h
           THEN CardRatio(warped_image.w, warped_image.h)
           ELSE CardRatio(warped_image.h, warped_image.w)

\* C13's case: an image was produced for a simple quadrilateral wider than tall.
C13_Witness ==
    /\ ImageReturned /\ WiderThanTall
    /\ SimpleQuadrilateral(ordered_corners)
    /\ warped_image.w = 349

-----------------------------------------------------------------------------
(* The detectors' contract *)

Enhanced == routine = "detect_enhanced_card_contours"

InLoop == dpc \in {"loop", "returned"}

Returned == dpc = "returned"

FrameArea == processed_shape[1] * processed_shape[2]

Accepted(j) == stages[j] = "accepted"

\* w : h is a : b within the tolerance of 18 percent
NearRatio(a, b, w, h) ==
    a * 82 * h < w * b * 100 /\ w * b * 100 < a * 118 * h

\* the area is exactly 0.008, or 0.6, of the frame
AtMinArea(c) == 1000 * c.area = 8 * FrameArea

AtMaxArea(c) == 10 * c.area = 6 * FrameArea

AtAreaBound(c) == AtMinArea(c) \/ AtMaxArea(c)

\* the bound of lines 112-113, a binary64 product, came out on the far side of
\* the area that is exactly 0.008 or 0.6 of the frame
RoundedPast(c) ==
    \/ AtMinArea(c) /\ FpLess(min_contour_area(processed_shape), Float(c.area))
    \/ AtMaxArea(c) /\ FpLess(Float(c.area), max_contour_area(processed_shape))

\* the area is strictly between 0.008 and 0.6 of the frame, or it is exactly
\* one of them and the bound computed in binary64 leaves it inside
PassesArea(c) ==
    IF AtAreaBound(c) THEN RoundedPast(c)
    ELSE 8 * FrameArea < 1000 * c.area /\ 10 * c.area < 6 * FrameArea

PassesCorners(c) == Len(c.approx) = 4

PassesAspect(c) ==
    LET box == boundingRect(c.approx)
    IN  NearRatio(63, 88, box[1], box[2]) \/ NearRatio(88, 63, box[1], box[2])

PassesEccentricity(c) ==
    6500 < calculate_eccentricity(c) /\ calculate_eccentricity(c) < 9900

PassesConvexity(c) ==
    c.n >= 3 /\ c.hull_perimeter > 0
        /\ 100 * c.contour_perimeter >= 92 * c.hull_perimeter

FirstFailure(c) ==
    IF ~PassesArea(c) THEN "area"
    ELSE IF ~PassesCorners(c) THEN "corners"
    ELSE IF ~PassesAspect(c) THEN "aspect"
    ELSE IF ~PassesEccentricity(c) THEN "eccentricity"
    ELSE IF ~PassesConvexity(c) THEN "convexity"
    ELSE "accepted"

\* C14: detect_enhanced_card_contours tests each contour against the five
\* filters in the order area, 4 vertices, aspect ratio, eccentricity, convexity
\* and rejects it at the first that fails; a contour is emitted exactly when it
\* passes all five, and every emitted candidate has 4 corner points.
C14_FiveFilters ==
    (Enhanced /\ InLoop) =>
        /\ \A j \in DOMAIN stages : stages[j] = FirstFailure(contours[j])
        /\ Len(detected_card_scaled_corners)
             = Cardinality({j \in DOMAIN stages : Accepted(j)})
        /\ \A k \in DOMAIN detected_card_scaled_corners :
              Len(detected_card_scaled_corners[k]) = 4
        /\ Returned => /\ Len(stages) = Len(contours)
                       /\ detection.cards = detected_card_scaled_corners

\* C14's case: of two contours one was emitted and one rejected by a late filter.
C14_Witness ==
    /\ Enhanced /\ Returned /\ Len(detection.cards) = 1
    /\ \E j, k \in DOMAIN stages :
          Accepted(j) /\ stages[k] \in {"aspect", "eccentricity"}

IsCircle(c) == c.n >= 5 /\ c.fit_status = "ok" /\ c.fit_ecc = 0

IsSliver(c) ==
    LET box == boundingRect(c.approx)
    IN  box[1] * 40 = box[2] \/ box[2] * 40 = box[1]

\* a rectangle of ratio 6.3:8.8, upright or lying, convexity 1, area in range
CardShaped(c) ==
    LET box == boundingRect(c.approx)
    IN  /\ Len(c.approx) = 4
        /\ box[1] * 88 = box[2] * 63 \/ box[1] * 63 = box[2] * 88
        /\ c.area = (box[1] - 1) * (box[2] - 1)
        /\ c.contour_perimeter = c.hull_perimeter
        /\ PassesArea(c)

\* the ellipse fitted to it has the eccentricity of the ratio 6.3:8.8, 0.6982
FittedAsCard(c) == c.fit_status = "ok" /\ c.fit_ecc = 6982

\* C15, as stated: a circle and a 40:1 sliver are rejected, and every contour
\* matching the 6.3:8.8 rectangle is accepted, the rectangle given by its 4
\* corner points only included.
C15_ScenarioAsStated ==
    (Enhanced /\ InLoop) =>
        \A j \in DOMAIN stages :
            LET c == contours[j]
            IN  /\ IsCircle(c) => ~Accepted(j)
                /\ IsSliver(c) => ~Accepted(j)
                /\ (CardShaped(c) /\ (c.n < 5 \/ FittedAsCard(c))) => Accepted(j)

\* C15, amended: a circle and a 40:1 sliver are rejected; a contour of at least
\* 5 points matching the 6.3:8.8 rectangle is accepted; the same rectangle given
\* by its 4 corner points only is rejected by the eccentricity filter.
C15_ScenarioAmended ==
    (Enhanced /\ InLoop) =>
        \A j \in DOMAIN stages :
            LET c == contours[j]
            IN  /\ IsCircle(c) => ~Accepted(j)
                /\ IsSliver(c) => ~Accepted(j)
                /\ (CardShaped(c) /\ c.n >= 5 /\ FittedAsCard(c)) => Accepted(j)
                /\ (CardShaped(c) /\ c.n < 5) => stages[j] = "eccentricity"

\* C15's case: a lying card of 8 points was accepted and a card given by its 4
\* corner points was met in the same run.
C15_Witness ==
    /\ Enhanced /\ Returned
    /\ \E j, k \in DOMAIN stages :
          /\ CardShaped(contours[j]) /\ contours[j].n >= 5 /\ Accepted(j)
          /\ boundingRect(contours[j].approx)[1] > boundingRect(contours[j].approx)[2]
          /\ CardShaped(contours[k]) /\ contours[k].n < 5

\* C16: a contour of fewer than 5 points gets the eccentricity 0 and is never
\* emitted, whatever its other measures; the loop goes on to the contours
\* after it.
C16_FewPointsRejected ==
    (Enhanced /\ InLoop) =>
        /\ \A j \in DOMAIN stages :
              contours[j].n < 5 => /\ calculate_eccentricity(contours[j]) = 0
                                   /\ ~Accepted(j)
        /\ Returned => Len(stages) = Len(contours)

\* C16's case: a contour of 4 points passed the first three filters and was
\* rejected, and the contour after it was emitted.
C16_Witness ==
    /\ Enhanced /\ Returned
    /\ \E j, k \in DOMAIN stages :
          /\ j < k /\ contours[j].n < 5 /\ stages[j] = "eccentricity"
          /\ Accepted(k) /\ Len(detection.cards) = 1

\* the position in contours of the k-th emitted candidate
SourceOf(k) ==
    CHOOSE j \in DOMAIN stages :
        Accepted(j) /\ Cardinality({i \in 1..j : Accepted(i)}) = k

\* C17: every candidate a detection routine returns has its corners in the
\* coordinates of the original image: each is the corner found on the processed
\* image multiplied by 1/s, s = processing height / original height.
C17_OriginalCoordinates ==
    (Returned /\ image_bgr.valid) =>
        \A k \in DOMAIN detection.cards :
            LET found == contours[SourceOf(k)].approx
                given == detection.cards[k]
            IN  \A m \in DOMAIN given :
                    /\ given[m][1] * processed_shape[1] = found[m][1] * image_bgr.h
                    /\ given[m][2] * processed_shape[1] = found[m][2] * image_bgr.h

\* C18: for a missing or undecodable image the detection does not return what
\* it returns for a valid image without cards, an empty sequence of candidates.
C18_InvalidImageIsNotEmptyResult ==
    (Returned /\ ~image_bgr.valid) => (detection.none \/ detection.cards # <<>>)

AtEccentricityBound(c) == calculate_eccentricity(c) \in {6500, 9900}

\* C20, as stated: the area and eccentricity intervals are closed: a contour
\* whose area is exactly 0.008 or 0.6 of the frame passes the area filter, one
\* whose eccentricity is exactly 0.65 or 0.99 passes the eccentricity filter.
C20_ClosedIntervalsAsStated ==
    (Enhanced /\ InLoop) =>
        \A j \in DOMAIN stages :
            /\ AtAreaBound(contours[j]) => stages[j] # "area"
            /\ AtEccentricityBound(contours[j]) => stages[j] # "eccentricity"

\* C20, amended: the comparisons are strict: a contour whose area is exactly
\* 0.008 or 0.6 of the frame is rejected by the area filter, unless the bound
\* the code computes in binary64 has been rounded past that area (0.008 * 578
\* * 375 gives 1733.9999999999998, and an area of 1734 passes); a contour
\* whose eccentricity is exactly 0.65 or 0.99 is never emitted: the
\* eccentricity filter rejects it when the first three filters let it through.
C20_OpenIntervals ==
    (Enhanced /\ InLoop) =>
        \A j \in DOMAIN stages :
            LET c == contours[j]
            IN  /\ (AtAreaBound(c) /\ ~RoundedPast(c)) => stages[j] = "area"
                /\ (AtAreaBound(c) /\ RoundedPast(c)) => stages[j] # "area"
                /\ AtEccentricityBound(c) => ~Accepted(j)
                /\ (AtEccentricityBound(c) /\ PassesArea(c) /\ PassesCorners(c)
                      /\ PassesAspect(c)) => stages[j] = "eccentricity"

\* C20's case: a contour of area exactly 0.008 of the frame and a contour of
\* eccentricity exactly 0.99 have both gone through the filters.
C20_Witness ==
    /\ Enhanced /\ Returned
    /\ \E j, k \in DOMAIN stages :
          /\ 1000 * contours[j].area = 8 * FrameArea /\ stages[j] = "area"
          /\ calculate_eccentricity(contours[k]) = 9900
          /\ stages[k] = "eccentricity"

====
